---- MODULE Spec2Model ----
(***************************************************************************)
(* Model of saltext/vmware_vsphere/modules/vmware_firewall.py:             *)
(* get_firewall_status and enable_firewall_ruleset, one call per           *)
(* behaviour.  A call is entered (arguments bound, cmd built, the          *)
(* esxi_hosts branch taken), then either iterates the explicit list, one   *)
(* esxcli invocation per step, or makes the single invocation for `host`.  *)
(*                                                                         *)
(* Python values:                                                          *)
(*   None / optional  -> <<>> for None and <<v>> for a value v             *)
(*   text             -> a sequence of lines, a line a sequence of tokens  *)
(*   dict             -> a function on its keys                            *)
(*   esxi_hosts       -> [kind, items, n]: the Python type name, the       *)
(*                       elements of a container (the non-empty text of a  *)
(*                       str as one element) and the value of an int       *)
(*   ruleset_enable   -> [kind, b, s]: the type name, the value of a bool, *)
(*                       the text of a str                                 *)
(***************************************************************************)
EXTENDS Integers, Sequences, FiniteSets

VARIABLES
    pc,              \* "idle" | "loop" | "single" | "returned" | "raised"
    op,              \* "none" | "get" | "enable"
    args,            \* host, username, password, protocol, port, credstore
    esxi_hosts,      \* the esxi_hosts argument
    ruleset_enable,  \* the ruleset_enable argument (enable only)
    ruleset_name,    \* the ruleset_name argument (enable only)
    cmd,             \* the command string, as the pieces format() joins
    ret,             \* the result dict under construction / returned
    i,               \* 1-based position of the for loop over esxi_hosts
    response,        \* the last value esxcli returned
    calls,           \* argument records of the esxcli calls made, in order
    resps,           \* the values esxcli returned, in order
    exc,             \* the exception that ended the call, "" if none
    connOk           \* whether esxcli accepts the connection parameters

vars == <<pc, op, args, esxi_hosts, ruleset_enable, ruleset_name, cmd, ret, i,
          response, calls, resps, exc, connOk>>

----------------------------------------------------------------------------
(* Bounds and input sets *)

MaxTargets == 3

Targets == {"esx1", "esx2"}

None == <<>>

Some(v) == <<v>>

Range(s) == {s[j] : j \in 1..Len(s)}

SeqsUpTo(S, n) == UNION {[1..m -> S] : m \in 0..n}

PyNone == [kind |-> "NoneType", items |-> <<>>, n |-> 0]

PyList(s) == [kind |-> "list", items |-> s, n |-> 0]

PyTuple(s) == [kind |-> "tuple", items |-> s, n |-> 0]

PyStrArg(s) == [kind |-> "str", items |-> s, n |-> 0]

PyInt(k) == [kind |-> "int", items |-> <<>>, n |-> k]

\* esxi_hosts as callers can pass it: absent, lists (duplicates included),
\* and the non-list values "", "esx1", 0, 1 and ("esx1", "esx2").
EsxiHostsValues ==
    {PyNone} \cup {PyList(s) : s \in SeqsUpTo(Targets, MaxTargets)}
    \cup {PyStrArg(<<>>), PyStrArg(<<"esx1">>), PyInt(0), PyInt(1),
          PyTuple(<<"esx1", "esx2">>)}

PyBool(x) == [kind |-> "bool", b |-> x, s |-> ""]

PyText(x) == [kind |-> "str", b |-> FALSE, s |-> x]

NoArg == [kind |-> "NoneType", b |-> FALSE, s |-> ""]

RulesetEnableValues == {PyBool(TRUE), PyBool(FALSE), PyText("maybe")}

RulesetNameValues == {"", "syslog"}

\* host, username, password with the optional protocol, port, credstore
\* left at their None defaults or all given.
ConnArgs ==
    {[host |-> "vcenter", username |-> "root", password |-> "pw",
      protocol |-> None, port |-> None, credstore |-> None],
     [host |-> "vcenter", username |-> "root", password |-> "pw",
      protocol |-> Some("http"), port |-> Some(8443),
      credstore |-> Some("/etc/cred")]}

TableOut ==
    << <<"Name", "Enabled">>, <<"syslog", "true">>, <<"sshServer", "false">>,
       <<>> >>

BadRowOut == << <<"Name", "Enabled">>, <<"syslog">> >>

ErrorOut == << <<"Error:", "unreachable">> >>

StderrText == << <<"connect", "failed", "on", "socket">> >>

\* What esxcli can return: a cmd.run_all record.
Responses ==
    {[retcode |-> rc, stdout |-> out, stderr |-> StderrText] :
        rc \in {0, 1}, out \in {TableOut, BadRowOut, ErrorOut}}

NoResponse == [retcode |-> 0, stdout |-> <<>>, stderr |-> <<>>]

EmptyDict == [k \in {} |-> None]

----------------------------------------------------------------------------
(* Python semantics used by the two functions *)

\* bool(x), as `if esxi_hosts:` evaluates it
Truthy(x) ==
    CASE x.kind = "NoneType" -> FALSE
      [] x.kind = "int" -> x.n # 0
      [] OTHER -> Len(x.items) > 0

\* The type check left out: every value passes for a list.
IsList_AnyValue(x) == TRUE

\* isinstance(x, list)
IsList(x) == x.kind = "list"

\* str(x), as "{}".format(x) renders it
PyStr(x) ==
    CASE x.kind = "bool" -> IF x.b THEN "True" ELSE "False"
      [] x.kind = "str" -> x.s
      [] OTHER -> "None"

\* ret = {k: v} in place of ret.update({k: v}).
Update_Rebind(d, k, v) == [x \in {k} |-> v]

\* d.update({k: v})
Update(d, k, v) == [x \in DOMAIN d \cup {k} |-> IF x = k THEN v ELSE d[x]]

----------------------------------------------------------------------------
(* Pieces of the two functions *)

GetCmd == <<"network firewall ruleset list">>

\* format() given its two arguments in the other order.
EnableCmd_Swapped(enable, name) ==
    <<"network firewall ruleset set --enabled ", name,
      " --ruleset-id=", PyStr(enable)>>

EnableCmd(enable, name) ==
    <<"network firewall ruleset set --enabled ", PyStr(enable),
      " --ruleset-id=", name>>

\* The branch taken on esxi_hosts: the loop, the raise, or the single call.
Branch(x) ==
    IF Truthy(x)
    THEN IF ~IsList(x) THEN "raised" ELSE "loop"
    ELSE "single"

\* The port keyword left out of the call.
EsxcliArgs_NoPort(override) ==
    [host |-> args.host, username |-> args.username,
     password |-> args.password, cmd |-> cmd, protocol |-> args.protocol,
     port |-> None, esxi_host |-> override,
     credstore |-> args.credstore]

\* The arguments one esxcli call receives; override is the esxi_host
\* keyword, None when it is not passed.
EsxcliArgs(override) ==
    [host |-> args.host, username |-> args.username,
     password |-> args.password, cmd |-> cmd, protocol |-> args.protocol,
     port |-> args.port, esxi_host |-> override,
     credstore |-> args.credstore]

LoopOverride(t) == Some(t)

\* esxi_host=host passed on the single-host path too.
SingleOverride_Host == Some(args.host)

SingleOverride == None

SingleKey == args.host

\* The error text taken from stderr.
ErrorEntry_Stderr(r) ==
    [Error |-> r.stderr, success |-> FALSE, rulesets |-> None]

\* The failure entry of get_firewall_status.
ErrorEntry(r) == [Error |-> r.stdout, success |-> FALSE, rulesets |-> None]

\* The response reshaped the way get_firewall_status does.
EnableEntry_Reshaped(r) ==
    [retcode |-> r.retcode, stdout |-> r.stdout, success |-> r.retcode = 0]

\* The entry enable_firewall_ruleset stores.
EnableEntry(r) == r

\* The loop left after its first iteration.
AfterIteration_Break(k, n) == "returned"

\* The position after iteration k of a loop over n elements.
AfterIteration(k, n) == IF k < n THEN "loop" ELSE "returned"

----------------------------------------------------------------------------
(* _format_firewall_stdout: header rows and blank lines are skipped, every *)
(* other row must have the two columns name and enabled.                   *)

IsHeader(line) == line = <<"Name", "Enabled">>

IsRow(line) == line # <<>> /\ ~IsHeader(line)

ParseFails(text) == \E j \in 1..Len(text) : IsRow(text[j]) /\ Len(text[j]) # 2

RECURSIVE ParseRows(_)
ParseRows(text) ==
    IF text = <<>> THEN <<>>
    ELSE IF IsRow(Head(text))
         THEN <<[name |-> Head(text)[1], enabled |-> Head(text)[2] = "true"]>>
              \o ParseRows(Tail(text))
         ELSE ParseRows(Tail(text))

_format_firewall_stdout(r) ==
    [success |-> TRUE, rulesets |-> Some(ParseRows(r.stdout))]

----------------------------------------------------------------------------
(* The state machine *)

Init ==
    /\ pc = "idle"
    /\ op = "none"
    /\ args \in ConnArgs
    /\ esxi_hosts = PyNone
    /\ ruleset_enable = NoArg
    /\ ruleset_name = ""
    /\ cmd = <<>>
    /\ ret = EmptyDict
    /\ i = 1
    /\ response = NoResponse
    /\ calls = <<>>
    /\ resps = <<>>
    /\ exc = ""
    /\ connOk \in BOOLEAN

\* Entry of a function up to the branch on esxi_hosts.
Enter(o, eh, c) ==
    /\ pc = "idle"
    /\ op' = o
    /\ esxi_hosts' = eh
    /\ cmd' = c
    /\ ret' = EmptyDict
    /\ pc' = Branch(eh)
    /\ exc' = IF Branch(eh) = "raised" THEN "CommandExecutionError" ELSE ""
    /\ UNCHANGED <<args, i, response, calls, resps, connOk>>

CallGet ==
    \E eh \in EsxiHostsValues :
        /\ Enter("get", eh, GetCmd)
        /\ UNCHANGED <<ruleset_enable, ruleset_name>>

CallEnable ==
    \E eh \in EsxiHostsValues, en \in RulesetEnableValues,
       nm \in RulesetNameValues :
        /\ Enter("enable", eh, EnableCmd(en, nm))
        /\ ruleset_enable' = en
        /\ ruleset_name' = nm

\* esxcli rejects the connection parameters: the call ends with its error,
\* nothing was sent and ret is gone with the frame.
InvokerRaises ==
    /\ pc' = "raised"
    /\ exc' = "ConfigurationError"
    /\ ret' = EmptyDict
    /\ UNCHANGED <<response, resps, i>>

\* _format_firewall_stdout raises on the response just received.
ParseRaises ==
    /\ pc' = "raised"
    /\ exc' = "ParseError"
    /\ ret' = EmptyDict
    /\ UNCHANGED i

\* The body of get_firewall_status after an esxcli call returned r for key.
StatusStep(key, r, next, nexti) ==
    /\ resps' = Append(resps, r)
    /\ response' = r
    /\ IF r.retcode # 0
       THEN ret' = Update(ret, key, ErrorEntry(r))
            /\ pc' = next /\ i' = nexti /\ exc' = exc
       ELSE IF ParseFails(r.stdout)
            THEN ParseRaises
            ELSE ret' = Update(ret, key, _format_firewall_stdout(r))
                 /\ pc' = next /\ i' = nexti /\ exc' = exc

\* One iteration of the for loop of get_firewall_status.
LoopGet ==
    /\ pc = "loop" /\ op = "get"
    /\ i <= Len(esxi_hosts.items)
    /\ calls' = Append(calls, EsxcliArgs(LoopOverride(esxi_hosts.items[i])))
    /\ IF ~connOk
       THEN InvokerRaises
       ELSE \E r \in Responses :
               StatusStep(esxi_hosts.items[i], r,
                          AfterIteration(i, Len(esxi_hosts.items)), i + 1)
    /\ UNCHANGED <<op, args, esxi_hosts, ruleset_enable, ruleset_name, cmd,
                   connOk>>

\* The else branch of get_firewall_status.
SingleGet ==
    /\ pc = "single" /\ op = "get"
    /\ calls' = Append(calls, EsxcliArgs(SingleOverride))
    /\ IF ~connOk
       THEN InvokerRaises
       ELSE \E r \in Responses : StatusStep(SingleKey, r, "returned", i)
    /\ UNCHANGED <<op, args, esxi_hosts, ruleset_enable, ruleset_name, cmd,
                   connOk>>

\* The body of enable_firewall_ruleset after an esxcli call returned r.
EnableStep(key, r, next, nexti) ==
    /\ resps' = Append(resps, r)
    /\ response' = r
    /\ ret' = Update(ret, key, EnableEntry(r))
    /\ pc' = next /\ i' = nexti /\ exc' = exc

\* One iteration of the for loop of enable_firewall_ruleset.
LoopEnable ==
    /\ pc = "loop" /\ op = "enable"
    /\ i <= Len(esxi_hosts.items)
    /\ calls' = Append(calls, EsxcliArgs(LoopOverride(esxi_hosts.items[i])))
    /\ IF ~connOk
       THEN InvokerRaises
       ELSE \E r \in Responses :
               EnableStep(esxi_hosts.items[i], r,
                          AfterIteration(i, Len(esxi_hosts.items)), i + 1)
    /\ UNCHANGED <<op, args, esxi_hosts, ruleset_enable, ruleset_name, cmd,
                   connOk>>

\* The else branch of enable_firewall_ruleset.
SingleEnable ==
    /\ pc = "single" /\ op = "enable"
    /\ calls' = Append(calls, EsxcliArgs(SingleOverride))
    /\ IF ~connOk
       THEN InvokerRaises
       ELSE \E r \in Responses : EnableStep(SingleKey, r, "returned", i)
    /\ UNCHANGED <<op, args, esxi_hosts, ruleset_enable, ruleset_name, cmd,
                   connOk>>

Next ==
    \/ CallGet
    \/ CallEnable
    \/ LoopGet
    \/ SingleGet
    \/ LoopEnable
    \/ SingleEnable

Spec == Init /\ [][Next]_vars

----------------------------------------------------------------------------
(* Vocabulary of the properties *)

\* The explicit-list path was taken.
ListPath == esxi_hosts.kind = "list" /\ esxi_hosts.items # <<>>

T == esxi_hosts.items

NoDup(s) == \A a, b \in 1..Len(s) : s[a] = s[b] => a = b

\* The targets a call resolves: the list, or the endpoint alone.
ResolvedKeys == IF ListPath THEN Range(T) ELSE {args.host}

NResolved == IF ListPath THEN Len(T) ELSE 1

\* The key the j-th response is stored under.
KeyOf(j) == IF ListPath THEN T[j] ELSE args.host

\* The last response received for key k.
LastFor(k) ==
    resps[CHOOSE j \in 1..Len(resps) :
            KeyOf(j) = k /\ \A m \in (j + 1)..Len(resps) : KeyOf(m) # k]

Scalar(x) == x.kind \in {"str", "int"}

\* A non-empty str or container, or a non-zero int.
NonEmpty(x) == x.items # <<>> \/ x.n # 0

Absent(x) == x = PyNone \/ x = PyList(<<>>)

----------------------------------------------------------------------------
\* C1 (as stated): the mapping returned for a non-empty list T has exactly
\* |T| entries and its key set is set(T), repeated targets included.
C1_Original ==
    (pc = "returned" /\ ListPath) =>
        (Cardinality(DOMAIN ret) = Len(T) /\ DOMAIN ret = Range(T))

\* C1 (amended): the mapping returned for a non-empty list T has the key set
\* set(T), one entry per distinct target: |T| entries exactly when no target
\* is repeated in T, fewer otherwise.
C1_KeysAreDistinctTargets ==
    (pc = "returned" /\ ListPath) =>
        /\ DOMAIN ret = Range(T)
        /\ NoDup(T) => Cardinality(DOMAIN ret) = Len(T)
        /\ ~NoDup(T) => Cardinality(DOMAIN ret) < Len(T)

C1_Witness ==
    /\ pc = "returned" /\ ListPath
    /\ Len(T) = 3 /\ ~NoDup(T) /\ DOMAIN ret = Targets
    /\ \E a, b \in 1..Len(resps) : resps[a].retcode # resps[b].retcode

\* C2: in get_firewall_status over a list, the iteration whose invocation
\* returns a non-zero code records success=False for its target, leaves every
\* other entry as it was, raises nothing and moves on to the next target (or
\* returns after the last); a returned call has invoked every position.
C2_FailureStep ==
    (pc = "loop" /\ op = "get" /\ Len(resps') = Len(resps) + 1
        /\ resps'[Len(resps')].retcode # 0) =>
        /\ ret'[T[i]].success = FALSE
        /\ \A k \in DOMAIN ret \ {T[i]} : k \in DOMAIN ret' /\ ret'[k] = ret[k]
        /\ DOMAIN ret' = DOMAIN ret \cup {T[i]}
        /\ exc' = "" /\ i' = i + 1
        /\ pc' = IF i < Len(T) THEN "loop" ELSE "returned"

C2_Returned ==
    (pc = "returned" /\ op = "get" /\ ListPath) =>
        /\ Len(calls) = Len(T) /\ Len(resps) = Len(T)
        /\ \A j \in 1..Len(T) :
              (resps[j].retcode # 0 /\ \A m \in (j + 1)..Len(T) : T[m] # T[j])
                  => ret[T[j]].success = FALSE

C2_FailureIsolated == []C2_Returned /\ [][C2_FailureStep]_vars

C2_Witness ==
    /\ pc = "returned" /\ op = "get" /\ ListPath
    /\ Len(T) = 3 /\ T[1] # T[2] /\ T[3] = T[2]
    /\ resps[1].retcode # 0 /\ resps[2].retcode = 0 /\ resps[3].retcode = 0
    /\ ret[T[1]].success = FALSE /\ ret[T[2]].success = TRUE

\* C3 (as stated): any scalar passed as esxi_hosts ends the call with the
\* configuration error and no invocation.
C3_Original ==
    (pc # "idle" /\ Scalar(esxi_hosts)) =>
        (pc = "raised" /\ exc = "CommandExecutionError" /\ calls = <<>>)

\* C3 (amended): any non-empty (truthy) non-list value passed as esxi_hosts
\* ends the call with the configuration error and no invocation; an empty
\* (falsy) scalar such as "" or 0 raises no such error and is handled as if
\* esxi_hosts were absent, by one invocation without a per-target override.
C3_TruthyNonListRaises ==
    pc # "idle" =>
        /\ (NonEmpty(esxi_hosts) /\ esxi_hosts.kind # "list") =>
              /\ pc = "raised" /\ exc = "CommandExecutionError"
              /\ calls = <<>> /\ resps = <<>> /\ ret = EmptyDict
        /\ (Scalar(esxi_hosts) /\ ~NonEmpty(esxi_hosts)) =>
              /\ exc # "CommandExecutionError"
              /\ pc = "single" \/
                    (Len(calls) = 1 /\ calls[1].esxi_host = None)

C3_Witness ==
    /\ pc = "raised" /\ exc = "CommandExecutionError"
    /\ Scalar(esxi_hosts) /\ NonEmpty(esxi_hosts) /\ calls = <<>>

\* C4 (as stated): enable_firewall_ruleset with an empty ruleset_name or a
\* ruleset_enable that is not a boolean makes no invocation and returns no
\* mapping.
C4_Original ==
    (op = "enable" /\ (ruleset_name = "" \/ ruleset_enable.kind # "bool")) =>
        (calls = <<>> /\ pc # "returned")

\* C5: enable_firewall_ruleset with a non-empty ruleset_name never makes more
\* invocations than it has resolved targets and has made exactly one per
\* target when it returns, the j-th for the j-th list entry; every
\* invocation carries the command built from that name and str() of that
\* state.
C5_OneCommandPerTarget ==
    (op = "enable" /\ ruleset_name # "") =>
        /\ Len(calls) <= NResolved
        /\ pc = "returned" => Len(calls) = NResolved
        /\ \A j \in 1..Len(calls) :
              /\ calls[j].cmd =
                    <<"network firewall ruleset set --enabled ",
                      PyStr(ruleset_enable), " --ruleset-id=", ruleset_name>>
              /\ calls[j].esxi_host =
                    IF ListPath THEN Some(T[j]) ELSE None

C5_Witness ==
    /\ op = "enable" /\ ruleset_name = "syslog" /\ pc = "returned"
    /\ ruleset_enable = PyBool(FALSE)
    /\ ListPath /\ Len(T) = 3 /\ Len(calls) = 3
    /\ calls[3].cmd[2] = "False" /\ calls[3].cmd[4] = "syslog"

\* C6: with esxi_hosts None or [], once the single-host branch has run
\* exactly one invocation has been made, for the endpoint host and with no
\* per-target override, and a returned mapping has the endpoint host as its
\* only key.
C6_ImplicitSingleTarget ==
    (Absent(esxi_hosts) /\ pc \notin {"idle", "single"}) =>
        /\ pc \in {"returned", "raised"}
        /\ Len(calls) = 1
        /\ calls[1].esxi_host = None
        /\ calls[1].host = args.host
        /\ pc = "returned" => DOMAIN ret = {args.host}

C6_Witness ==
    /\ pc = "returned" /\ op = "enable" /\ esxi_hosts = PyList(<<>>)
    /\ Len(calls) = 1 /\ DOMAIN ret = {"vcenter"}

\* C7: every entry of get_firewall_status is fixed by the return code of the
\* invocation it was recorded for: code 0 gives success=True and the parsed
\* stdout as rulesets, any other code gives success=False, rulesets=None and
\* Error equal to that invocation's stdout, not its stderr; on both paths.
C7_EntryByReturnCode ==
    op = "get" =>
        \A k \in DOMAIN ret :
            LET r == LastFor(k) IN
            IF r.retcode = 0
            THEN ret[k] = [success |-> TRUE,
                           rulesets |-> Some(ParseRows(r.stdout))]
            ELSE /\ ret[k] = [Error |-> r.stdout, success |-> FALSE,
                              rulesets |-> None]
                 /\ ret[k].Error # r.stderr

C7_Witness ==
    /\ pc = "returned" /\ op = "get" /\ ~ListPath
    /\ response.retcode = 1 /\ response.stdout = ErrorOut
    /\ ret[args.host].Error = ErrorOut /\ ret[args.host].rulesets = None

\* C8 (as stated): a call that raised did so with a configuration error
\* before any response was received, and a call that returned covers every
\* resolved target.
C8_Original ==
    /\ pc = "raised" =>
          /\ exc \in {"CommandExecutionError", "ConfigurationError"}
          /\ resps = <<>>
    /\ pc = "returned" => DOMAIN ret = ResolvedKeys

\* C9: every entry of enable_firewall_ruleset is the record esxcli returned
\* for that target, with the fields retcode, stdout and stderr and nothing
\* else, whatever the return code.
C9_RawRecord ==
    op = "enable" =>
        \A k \in DOMAIN ret :
            /\ ret[k] = LastFor(k)
            /\ DOMAIN ret[k] = {"retcode", "stdout", "stderr"}

C9_Witness ==
    /\ pc = "returned" /\ op = "enable" /\ ListPath
    /\ DOMAIN ret = Targets
    /\ ret["esx1"].retcode = 1 /\ ret["esx2"].retcode = 0
    /\ ret["esx1"].stderr = StderrText

\* C10: on the explicit-list path every invocation made so far received the
\* host, username, password, protocol, port and credstore of the call and
\* the command built at its start, and the j-th received the j-th list
\* element as esxi_host.
C10_SameArgumentsEachIteration ==
    ListPath =>
        /\ cmd = IF op = "get" THEN <<"network firewall ruleset list">>
                 ELSE <<"network firewall ruleset set --enabled ",
                        PyStr(ruleset_enable), " --ruleset-id=",
                        ruleset_name>>
        /\ \A j \in 1..Len(calls) :
              calls[j] =
                [host |-> args.host, username |-> args.username,
                 password |-> args.password, cmd |-> cmd,
                 protocol |-> args.protocol, port |-> args.port,
                 esxi_host |-> Some(T[j]), credstore |-> args.credstore]

C10_Witness ==
    /\ pc = "returned" /\ ListPath /\ op = "get"
    /\ Len(calls) = 3 /\ T = <<"esx1", "esx2", "esx1">>
    /\ args.port = Some(8443)
    /\ resps[1].retcode = 1 /\ resps[2].retcode = 0

====
